---- MODULE Spec2Model ----
(***************************************************************************)
(* A model of honkypy: the four cipher engines of dctx.py                  *)
(* (Version1Context .. Version4Context), setup_v3, and the set-up and      *)
(* probing functions of __init__.py.                                       *)
(*                                                                         *)
(* A 32-bit word is the pair <<hi, lo>> of its 16-bit halves, because the  *)
(* model checker's integers are 32-bit signed: the word 0x12345678 is      *)
(* <<0x1234, 0x5678>> = <<4660, 22136>>.  A byte string is a sequence of   *)
(* numbers in 0..255.                                                      *)
(***************************************************************************)
EXTENDS Integers, Sequences, FiniteSets, TLC

VARIABLES
    file,     \* the bytes of the file on disk: header, then ciphertext
    made,     \* the arguments the file on disk was encrypted with
    call,     \* the last call: its name and arguments
    ret,      \* what the last call of a set-up function returned or raised
    dctx,     \* the engine of the running session
    session,  \* which operations the engine has seen since it was constructed
    inp,      \* the bytes given to decrypt_int since the last goto_offset
    outp      \* the bytes decrypt_int / decrypt_block returned for them

vars == <<file, made, call, ret, dctx, session, inp, outp>>

(***************************************************************************)
(* Arithmetic on bytes, 16-bit halves and 32-bit words.                    *)
(***************************************************************************)
Pow2(n) == 2 ^ n

Max(a, b) == IF a >= b THEN a ELSE b

RECURSIVE AndBits(_, _, _)
\* a & b for 0 <= a, b < 2^n
AndBits(a, b, n) ==
    IF n = 0 THEN 0
    ELSE (a % 2) * (b % 2) + 2 * AndBits(a \div 2, b \div 2, n - 1)

RECURSIVE XorBits(_, _, _)
\* a ^ b for 0 <= a, b < 2^n
XorBits(a, b, n) ==
    IF n = 0 THEN 0
    ELSE ((a + b) % 2) + 2 * XorBits(a \div 2, b \div 2, n - 1)

\* (~b) & 0xFF
Not8(b) == 255 - b

\* b with bit k flipped (b ^ (1 << k))
FlipBit(b, k) == IF (b \div Pow2(k)) % 2 = 1 THEN b - Pow2(k) ELSE b + Pow2(k)

\* the 32-bit product of two 16-bit numbers, as a word
Mul16(a, b) ==
    LET p0 == (a % 256) * b
        p1 == (a \div 256) * b
        s  == p0 + (p1 % 256) * 256
    IN  <<((p1 \div 256) + (s \div 65536)) % 65536, s % 65536>>

\* (x + y) & 0xFFFFFFFF
Add32(x, y) ==
    LET l == x[2] + y[2]
    IN  <<(x[1] + y[1] + (l \div 65536)) % 65536, l % 65536>>

\* (x - y) % 0x100000000
Sub32(x, y) ==
    LET l == x[2] - y[2]
        b == IF l < 0 THEN 1 ELSE 0
    IN  <<(x[1] - y[1] - b + 65536) % 65536, (l + 65536) % 65536>>

\* (x * y) & 0xFFFFFFFF
Mul32(x, y) ==
    LET ll == Mul16(x[2], y[2])
        hl == Mul16(x[1], y[2])
        lh == Mul16(x[2], y[1])
    IN  <<(ll[1] + hl[2] + lh[2]) % 65536, ll[2]>>

\* (~x) & 0xFFFFFFFF
Not32(x) == <<65535 - x[1], 65535 - x[2]>>

\* x > y on words
Gt32(x, y) == x[1] > y[1] \/ (x[1] = y[1] /\ x[2] > y[2])

\* (x >> s) & 0xFF for 0 <= s <= 24
ShiftByte(x, s) ==
    IF s >= 16 THEN (x[1] \div Pow2(s - 16)) % 256
    ELSE ((x[2] \div Pow2(s)) + (x[1] % 256) * Pow2(16 - s)) % 256

\* (b0 << 24) | (b1 << 16) | (b2 << 8) | b3
WordOfBytes(b0, b1, b2, b3) == <<b0 * 256 + b1, b2 * 256 + b3>>

\* the word of a number below 2^31
WordOfInt(n) == <<n \div 65536, n % 65536>>

RECURSIVE SumBytes(_)
\* sum(b) of a byte string
SumBytes(b) == IF b = <<>> THEN 0 ELSE Head(b) + SumBytes(Tail(b))

Take(s, n) == SubSeq(s, 1, IF n < Len(s) THEN n ELSE Len(s))

Drop(s, n) == SubSeq(s, n + 1, Len(s))

(***************************************************************************)
(* key_tables.py and the name prefixes of __init__.py.                     *)
(***************************************************************************)
KEY_TABLES_JP ==
    << <<18467, 41>>, <<26500, 6334>>, <<15724, 19169>>, <<29358, 11478>>,
       <<24464, 26962>>, <<28145, 5705>>, <<16827, 23281>>, <<491, 9961>>,
       <<11942, 2995>>, <<5436, 4827>>, <<14604, 32391>>, <<153, 3902>>,
       <<12382, 292>>, <<18716, 17421>>, <<19895, 19718>>, <<21726, 5447>>,
       <<11538, 14771>>, <<19912, 1869>>, <<26299, 25667>>, <<9894, 17035>>,
       <<23811, 28703>>, <<30333, 31322>>, <<4664, 17673>>, <<7711, 15141>>,
       <<6868, 28253>>, <<27644, 25547>>, <<32757, 32662>>, <<12859, 20037>>,
       <<9741, 8723>>, <<778, 27529>>, <<3035, 12316>>, <<1842, 22190>>,
       <<30106, 288>>, <<8942, 9040>>, <<22648, 19264>>, <<23805, 27446>>,
       <<6729, 15890>>, <<15350, 24370>>, <<31101, 15006>>, <<3548, 24393>>,
       <<12623, 19629>>, <<19954, 24084>>, <<11840, 18756>>, <<7376, 4966>>,
       <<26308, 13931>>, <<32439, 16944>>, <<11323, 24626>>, <<21538, 5537>>,
       <<2082, 16118>>, <<16541, 22929>>, <<31115, 4833>>, <<29658, 4639>>,
       <<9930, 22704>>, <<2306, 13977>>, <<22386, 31673>>, <<28745, 5021>>,
       <<19072, 26924>>, <<5829, 6270>>, <<15573, 26777>>, <<16512, 5097>>,
       <<13290, 23986>>, <<18636, 9161>>, <<24767, 22355>>, <<15574, 23655>> >>

KEY_TABLES_WW ==
    << <<43664, 43286>>, <<55285, 49571>>, <<57610, 53951>>, <<50131, 47557>>,
       <<33739, 22869>>, <<46973, 26216>>, <<7091, 64844>>, <<10902, 5539>>,
       <<6712, 29790>>, <<6424, 7943>>, <<45738, 13700>>, <<9624, 21447>>,
       <<22717, 11333>>, <<20368, 2195>>, <<47860, 14369>>, <<12158, 55293>>,
       <<39747, 58377>>, <<61581, 33791>>, <<10583, 24579>>, <<17428, 6349>>,
       <<17674, 7172>>, <<8671, 27025>>, <<55263, 38511>>, <<55622, 20258>>,
       <<62944, 35460>>, <<49231, 27287>>, <<47158, 64797>>, <<17461, 3125>>,
       <<13424, 7588>>, <<44749, 63023>>, <<29243, 37343>>, <<42030, 15360>>,
       <<22722, 14296>>, <<54248, 56932>>, <<35916, 33957>>, <<25673, 36912>>,
       <<9700, 44737>>, <<52724, 47368>>, <<8125, 21229>>, <<62661, 64265>>,
       <<31767, 20838>>, <<2182, 43356>>, <<40246, 50354>>, <<17408, 59748>>,
       <<51920, 36511>>, <<5105, 58897>>, <<28603, 4449>>, <<13178, 55503>>,
       <<25206, 15634>>, <<18562, 54108>>, <<41669, 34618>>, <<22718, 23616>>,
       <<42395, 8240>>, <<60638, 6043>>, <<24446, 7594>>, <<43902, 63489>>,
       <<21458, 18451>>, <<22004, 35581>>, <<33513, 56960>>, <<39663, 41757>>,
       <<45218, 41519>>, <<50608, 894>>, <<4924, 56043>>, <<53888, 49827>> >>

KEY_TABLES_TW ==
    << <<43301, 58648>>, <<23225, 50340>>, <<405, 1368>>, <<44287, 29058>>,
       <<59416, 13105>>, <<40219, 26979>>, <<2958, 40213>>, <<38618, 53435>>,
       <<3988, 7733>>, <<51560, 58211>>, <<8280, 42666>>, <<29046, 47874>>,
       <<19019, 9219>>, <<60794, 20003>>, <<15284, 7910>>, <<29027, 19462>>,
       <<32269, 53722>>, <<13363, 9673>>, <<59771, 17142>>, <<63119, 15503>>,
       <<5511, 57048>>, <<2451, 24475>>, <<12915, 12443>>, <<61372, 12664>>,
       <<38080, 7133>>, <<16590, 41915>>, <<54648, 23690>>, <<3777, 47502>>,
       <<51410, 53942>>, <<61309, 30641>>, <<29057, 19119>>, <<11907, 36523>>,
       <<27416, 32600>>, <<43452, 37454>>, <<28331, 23462>>, <<29583, 27951>>,
       <<49588, 39588>>, <<43882, 23891>>, <<63832, 63272>>, <<23052, 56155>>,
       <<47123, 14641>>, <<37427, 14019>>, <<46500, 7648>>, <<24449, 39731>>,
       <<7994, 30383>>, <<22267, 31356>>, <<25774, 29031>>, <<62364, 242>>,
       <<36719, 25028>>, <<27257, 47545>>, <<23306, 45478>>, <<47088, 31242>>,
       <<8752, 13823>>, <<6824, 26188>>, <<21822, 56086>>, <<14226, 12486>>,
       <<41646, 60298>>, <<63047, 53482>>, <<43292, 45814>>, <<47984, 63511>>,
       <<38102, 13697>>, <<18855, 64214>>, <<31725, 56597>>, <<50833, 15597>> >>

KEY_TABLES_CN ==
    << <<7017, 22104>>, <<2627, 41491>>, <<3757, 2147>>, <<5120, 1389>>,
       <<54384, 17949>>, <<46613, 8960>>, <<64480, 21692>>, <<39625, 61714>>,
       <<9171, 51894>>, <<52623, 57384>>, <<26885, 48500>>, <<419, 42514>>,
       <<28310, 42361>>, <<13117, 31441>>, <<46696, 35839>>, <<10518, 1173>>,
       <<55156, 15311>>, <<36574, 38843>>, <<51915, 32397>>, <<9432, 7203>>,
       <<56316, 26951>>, <<45173, 8648>>, <<62726, 58030>>, <<16200, 57135>>,
       <<21182, 45426>>, <<26969, 13800>>, <<5090, 41129>>, <<58093, 62473>>,
       <<38603, 42433>>, <<56241, 59536>>, <<19498, 63848>>, <<6141, 6086>>,
       <<7066, 62888>>, <<38848, 48165>>, <<33811, 51321>>, <<55729, 16353>>,
       <<16486, 43336>>, <<38498, 570>>, <<29860, 65262>>, <<7972, 46326>>,
       <<25462, 35016>>, <<31356, 53104>>, <<37124, 12012>>, <<22509, 53292>>,
       <<26221, 41693>>, <<37507, 40425>>, <<17338, 43501>>, <<586, 36396>>,
       <<54510, 31602>>, <<13505, 35698>>, <<5042, 30148>>, <<60752, 27246>>,
       <<48156, 10681>>, <<64102, 41504>>, <<49718, 19939>>, <<30334, 21170>>,
       <<58067, 9273>>, <<59120, 52981>>, <<53644, 34439>>, <<5307, 41621>>,
       <<52612, 53595>>, <<41001, 3970>>, <<54249, 23292>>, <<40042, 38836>> >>

NAME_PREFIX_JP == <<72, 101, 108, 108, 111>>

NAME_PREFIX_WW == <<66, 70, 100, 51, 69, 110, 107, 99, 75, 97>>

NAME_PREFIX_TW == <<77, 50, 111, 50, 66, 55, 105, 51, 77, 54, 111, 54, 78, 56, 56>>

NAME_PREFIX_CN ==
    <<105, 76, 98, 115, 48, 76, 112, 118, 74, 114, 88, 109, 51, 122, 106, 100,
      104, 65, 114, 52>>

\* the list of (gametype, prefix, key_tables), in probing order
_COMBINATION ==
    << <<"JP", NAME_PREFIX_JP, KEY_TABLES_JP>>,
       <<"WW", NAME_PREFIX_WW, KEY_TABLES_WW>>,
       <<"TW", NAME_PREFIX_TW, KEY_TABLES_TW>>,
       <<"CN", NAME_PREFIX_CN, KEY_TABLES_CN>> >>

(***************************************************************************)
(* Python values: None and an optional value, a returned engine and a      *)
(* raised exception.                                                       *)
(***************************************************************************)
\* None is the empty sequence and a value x that may be None is <<x>>
None == <<>>

Some(x) == <<x>>

IsNone(o) == o = <<>>

\* a call that returned the engine d
Return(d) == [ok |-> TRUE, dctx |-> d]

\* a call that raised the exception class e
Raise(e) == [ok |-> FALSE, error |-> e]

\* error.py: every class of the module derives from HonkyPyError(ValueError)
HonkyPyUserError ==
    {"InsufficientHeaderDataError", "VersionOutOfRange", "KeyTablesMissingError",
     "InvalidGameType"}

HonkyPyDecryptError ==
    {"NoSuitableModeError", "VersionUnsupported", "InvalidHeaderError",
     "NameSumMismatchError"}

HonkyPyError == HonkyPyUserError \cup HonkyPyDecryptError

\* what "except ValueError" catches; an IndexError is a LookupError
IsValueError(e) == e \in HonkyPyError

(***************************************************************************)
(* util.calculate_md5: the digest of prefix + basename(filename), and the  *)
(* basename.  MD5 is a table of the digests of the modelled names.         *)
(***************************************************************************)
Md5Table ==
    {
       <<<<72, 101, 108, 108, 111, 116, 101, 115, 116, 46, 98, 105, 110>>,
         <<235, 250, 119, 100, 194, 37, 73, 246, 164, 186, 136, 187, 37, 105, 87, 124>>>>,
       <<<<66, 70, 100, 51, 69, 110, 107, 99, 75, 97, 116, 101, 115, 116, 46, 98, 105, 110>>,
         <<86, 123, 96, 98, 88, 116, 249, 71, 226, 40, 208, 167, 133, 186, 143, 179>>>>,
       <<<<77, 50, 111, 50, 66, 55, 105, 51, 77, 54, 111, 54, 78, 56, 56, 116, 101, 115, 116, 46, 98, 105, 110>>,
         <<49, 192, 118, 183, 79, 141, 50, 41, 41, 251, 29, 178, 112, 214, 141, 141>>>>,
       <<<<105, 76, 98, 115, 48, 76, 112, 118, 74, 114, 88, 109, 51, 122, 106, 100, 104, 65, 114, 52, 116, 101, 115, 116, 46, 98, 105, 110>>,
         <<96, 18, 122, 182, 200, 33, 55, 110, 145, 197, 226, 107, 14, 160, 35, 72>>>>,
       <<<<72, 101, 108, 108, 111, 97, 46, 112, 110, 103>>,
         <<126, 188, 156, 88, 164, 32, 148, 5, 226, 20, 219, 41, 126, 102, 28, 131>>>>,
       <<<<66, 70, 100, 51, 69, 110, 107, 99, 75, 97, 97, 46, 112, 110, 103>>,
         <<132, 33, 164, 230, 57, 23, 25, 205, 166, 178, 215, 159, 114, 0, 14, 64>>>>,
       <<<<77, 50, 111, 50, 66, 55, 105, 51, 77, 54, 111, 54, 78, 56, 56, 97, 46, 112, 110, 103>>,
         <<129, 218, 23, 168, 103, 160, 85, 138, 207, 30, 35, 107, 198, 249, 6, 19>>>>,
       <<<<105, 76, 98, 115, 48, 76, 112, 118, 74, 114, 88, 109, 51, 122, 106, 100, 104, 65, 114, 52, 97, 46, 112, 110, 103>>,
         <<237, 248, 91, 169, 168, 166, 187, 233, 140, 216, 201, 126, 15, 82, 236, 255>>>> }

Md5(m) == (CHOOSE e \in Md5Table : e[1] = m)[2]

RECURSIVE Basename(_)
\* the part of a path after its last "/" (byte 47)
Basename(f) ==
    IF \E i \in 1..Len(f) : f[i] = 47
    THEN Basename(Drop(f, CHOOSE i \in 1..Len(f) : f[i] = 47))
    ELSE f

calculate_md5(prefix, filename) ==
    [digest |-> Md5(prefix \o Basename(filename)), basename |-> Basename(filename)]

(***************************************************************************)
(* dctx.py: _LCGKeys and _V4_LCG_PARAM.                                    *)
(***************************************************************************)
_V4_LCG_PARAM ==
    << [a |-> WordOfInt(1103515245), c |-> WordOfInt(12345), shift |-> 15],
       [a |-> WordOfInt(22695477), c |-> WordOfInt(1), shift |-> 23],
       [a |-> WordOfInt(214013), c |-> WordOfInt(2531011), shift |-> 24],
       [a |-> WordOfInt(65793), c |-> WordOfInt(4282663), shift |-> 8] >>

\* _LCGKeys.next: (x * a + c) & 0xFFFFFFFF
LCGNext(lcg, x) == Add32(Mul32(x, lcg.a), lcg.c)

(***************************************************************************)
(* dctx.py: Version1Context.                                               *)
(***************************************************************************)
Version1Context(prefix, filename, key_tables, header_test) ==
    LET m == calculate_md5(prefix, filename)
        d == m.digest
        k == WordOfBytes(d[1], d[2], d[3], d[4])
    IN  Return([VERSION |-> 1,
                update_key |-> WordOfInt((Len(m.basename) % 64) + 1),
                init_key |-> k,
                xor_key |-> k,
                pos |-> 0])

V1Step(e) == [e EXCEPT !.xor_key = Add32(e.xor_key, e.update_key)]

(***************************************************************************)
(* dctx.py: Version2Context.                                               *)
(***************************************************************************)
\* ((k >> 23) & 0xFF) | ((k >> 7) & 0xFF00)
V2XorKey(k) == ShiftByte(k, 23) + 256 * ShiftByte(k, 15)

\* a Version2Context that compares only the first three bytes of
\* header_test; the header round trip tells it from Version2Context
Version2ContextThreeBytes(prefix, filename, key_tables, header_test) ==
    LET m == calculate_md5(prefix, filename)
        d == m.digest
        k == WordOfBytes(d[1] % 128, d[2], d[3], d[4])
    IN  IF ~IsNone(header_test) /\ SubSeq(d, 5, 7) # Take(header_test[1], 3)
        THEN Raise("InvalidHeaderError")
        ELSE Return([VERSION |-> 2,
                     header |-> SubSeq(d, 5, 8),
                     init_key |-> k,
                     xor_key |-> V2XorKey(k),
                     update_key |-> k,
                     pos |-> 0])

\* Version2Context without the test of header_test
Version2ContextNoTest(prefix, filename, key_tables, header_test) ==
    LET m == calculate_md5(prefix, filename)
        d == m.digest
        k == WordOfBytes(d[1] % 128, d[2], d[3], d[4])
    IN  Return([VERSION |-> 2,
                header |-> SubSeq(d, 5, 8),
                init_key |-> k,
                xor_key |-> V2XorKey(k),
                update_key |-> k,
                pos |-> 0])

Version2Context(prefix, filename, key_tables, header_test) ==
    LET m == calculate_md5(prefix, filename)
        d == m.digest
        k == WordOfBytes(d[1] % 128, d[2], d[3], d[4])
    IN  IF ~IsNone(header_test) /\ SubSeq(d, 5, 8) # Take(header_test[1], 4)
        THEN Raise("InvalidHeaderError")
        ELSE Return([VERSION |-> 2,
                     header |-> SubSeq(d, 5, 8),
                     init_key |-> k,
                     xor_key |-> V2XorKey(k),
                     update_key |-> k,
                     pos |-> 0])

\* Version2Context._step.  In  (a * 0x41A70000) & 0x7FFFFFFF + lo * 0x41A7
\* Python adds before it masks: the mask is 0x7FFFFFFF + lo * 0x41A7, which
\* is below 2^32, and a * 0x41A70000 has its low 16 bits clear.
\* The sum d = c + b, which is below 2^32.
V2StepSum(update_key) ==
    LET a == update_key[1]
        mask == Add32(<<32767, 65535>>, Mul16(update_key[2], 16807))
        b == <<AndBits((a * 16807) % 65536, mask[1], 16), 0>>
        c == <<0, (a * 16807) \div 32768>>
    IN  Add32(c, b)

\* e = (d - 0x7FFFFFFF) % 0x100000000; f = e if e > 0x7FFFFFFE else d
V2StepKey(update_key) ==
    LET d == V2StepSum(update_key)
        e == Sub32(d, <<32767, 65535>>)
    IN  IF Gt32(e, <<32767, 65534>>) THEN e ELSE d

V2Step(e) ==
    LET f == V2StepKey(e.update_key)
    IN  [e EXCEPT !.update_key = f, !.xor_key = V2XorKey(f)]

(***************************************************************************)
(* dctx.py: _V3Base, Version3Context and Version4Context.                  *)
(***************************************************************************)
V3Step(e) == [e EXCEPT !.update_key = LCGNext(e.lcg, e.update_key)]

Version3Context(prefix, md5digest, basename, key_tables, enforce_ns, flip, header_ns) ==
    LET name_sum ==
            IF ~IsNone(header_ns) /\ ~enforce_ns THEN header_ns[1]
            ELSE SumBytes(prefix) + SumBytes(basename)
        k == key_tables[(name_sum % 64) + 1]
        init_key == IF flip THEN Not32(k) ELSE k
    IN  IF ~IsNone(header_ns) /\ ~enforce_ns /\ header_ns[1] # name_sum
        THEN Raise("NameSumMismatchError")
        ELSE IF (name_sum % 64) + 1 > Len(key_tables)
        THEN Raise("IndexError")
        ELSE Return([VERSION |-> 3,
                     name_sum |-> name_sum,
                     lcg |-> _V4_LCG_PARAM[3],
                     init_key |-> init_key,
                     flipped |-> flip,
                     update_key |-> init_key,
                     pos |-> 0,
                     md5 |-> md5digest])

Version4Context(md5hash, lcg_index) ==
    LET k == WordOfBytes(md5hash[9], md5hash[10], md5hash[11], md5hash[12])
    IN  IF lcg_index + 1 > Len(_V4_LCG_PARAM)
        THEN Raise("IndexError")
        ELSE Return([VERSION |-> 4,
                     lcg |-> _V4_LCG_PARAM[lcg_index + 1],
                     lcg_index |-> lcg_index,
                     init_key |-> k,
                     update_key |-> k,
                     pos |-> 0,
                     md5 |-> md5hash])

(***************************************************************************)
(* The operations of an engine: decrypt_int, goto_offset, decrypt_block,   *)
(* emit_header, dispatched on the class of the engine.                     *)
(***************************************************************************)
HEADER_SIZE(e) == CASE e.VERSION = 1 -> 0 [] e.VERSION = 2 -> 4 [] OTHER -> 16

\* the number of bytes that share one state of the key schedule
Period(e) == CASE e.VERSION = 1 -> 4 [] e.VERSION = 2 -> 2 [] OTHER -> 1

\* _step of the engine's class
Step(e) ==
    CASE e.VERSION = 1 -> V1Step(e)
      [] e.VERSION = 2 -> V2Step(e)
      [] OTHER -> V3Step(e)

RECURSIVE StepN(_, _)
\* for i in range(n): self._step()   (no iteration when n <= 0); the test
\* e1 = e1 has each step computed before the next iteration begins
StepN(e, n) ==
    IF n <= 0 THEN e
    ELSE LET e1 == Step(e) IN IF e1 = e1 THEN StepN(e1, n - 1) ELSE e

\* Version1Context.decrypt_int taking the bytes of xor_key least-significant
\* byte first
V1DecryptIntLsbFirst(e, data) ==
    LET index == e.pos % 4
        key == ShiftByte(e.xor_key, index * 8)
        e1 == IF index = 3 THEN V1Step(e) ELSE e
    IN  [dctx |-> [e1 EXCEPT !.pos = e.pos + 1], result |-> XorBits(data, key, 8)]

\* decrypt_int: the engine afterwards and the byte returned
V1DecryptInt(e, data) ==
    LET index == e.pos % 4
        key == ShiftByte(e.xor_key, (3 - index) * 8)
        e1 == IF index = 3 THEN V1Step(e) ELSE e
    IN  [dctx |-> [e1 EXCEPT !.pos = e.pos + 1], result |-> XorBits(data, key, 8)]

V2DecryptInt(e, data) ==
    LET index == e.pos % 2
        key == (e.xor_key \div Pow2(index * 8)) % 256
        e1 == IF index = 1 THEN V2Step(e) ELSE e
    IN  [dctx |-> [e1 EXCEPT !.pos = e.pos + 1], result |-> XorBits(data, key, 8)]

\* a decrypt_int that adds the key byte instead of xoring it; the involution
\* tells it from V3DecryptInt
V3DecryptIntAdds(e, data) ==
    LET key == ShiftByte(e.update_key, e.lcg.shift % 32)
    IN  [dctx |-> V3Step([e EXCEPT !.pos = e.pos + 1]),
         result |-> ((data % 256) + key) % 256]

V3DecryptInt(e, data) ==
    LET key == ShiftByte(e.update_key, e.lcg.shift % 32)
    IN  [dctx |-> V3Step([e EXCEPT !.pos = e.pos + 1]),
         result |-> XorBits(data % 256, key, 8)]

decrypt_int(e, data) ==
    CASE e.VERSION = 1 -> V1DecryptInt(e, data)
      [] e.VERSION = 2 -> V2DecryptInt(e, data)
      [] OTHER -> V3DecryptInt(e, data)

\* goto_offset: the engine afterwards
V1GotoOffset(e, target) ==
    LET pos == Max(target, 0)
        currentpos4 == e.pos \div 4
        newpos4 == pos \div 4
    IN  IF currentpos4 = newpos4 THEN [e EXCEPT !.pos = pos]
        ELSE IF newpos4 > currentpos4
        THEN [StepN(e, newpos4 - currentpos4) EXCEPT !.pos = pos]
        ELSE [StepN([e EXCEPT !.xor_key = e.init_key], newpos4) EXCEPT !.pos = pos]

\* a goto_offset that rewinds xor_key when it repositions inside a step;
\* sub-period repositioning tells it from V2GotoOffset
V2GotoOffsetRewinds(e, target) ==
    LET pos == Max(target, 0)
        currentpos2 == e.pos \div 2
        newpos2 == pos \div 2
    IN  IF currentpos2 = newpos2
        THEN [e EXCEPT !.pos = pos, !.xor_key = V2XorKey(e.init_key)]
        ELSE IF newpos2 > currentpos2
        THEN [StepN(e, newpos2 - currentpos2) EXCEPT !.pos = pos]
        ELSE [StepN([e EXCEPT !.xor_key = V2XorKey(e.init_key)], newpos2)
                 EXCEPT !.pos = pos]

V2GotoOffset(e, target) ==
    LET pos == Max(target, 0)
        currentpos2 == e.pos \div 2
        newpos2 == pos \div 2
    IN  IF currentpos2 = newpos2 THEN [e EXCEPT !.pos = pos]
        ELSE IF newpos2 > currentpos2
        THEN [StepN(e, newpos2 - currentpos2) EXCEPT !.pos = pos]
        ELSE [StepN([e EXCEPT !.xor_key = V2XorKey(e.init_key)], newpos2)
                 EXCEPT !.pos = pos]

V3GotoOffset(e, pos) ==
    IF e.pos >= pos
    THEN [StepN(e, pos - e.pos) EXCEPT !.pos = pos]
    ELSE [StepN([e EXCEPT !.update_key = e.init_key], pos) EXCEPT !.pos = pos]

\* a goto_offset that sets pos and leaves the key schedule alone; seek
\* equivalence tells it from goto_offset
GotoOffsetPosOnly(e, pos) == [e EXCEPT !.pos = pos]

goto_offset(e, pos) ==
    CASE e.VERSION = 1 -> V1GotoOffset(e, pos)
      [] e.VERSION = 2 -> V2GotoOffset(e, pos)
      [] OTHER -> V3GotoOffset(e, pos)

\* goto_offset: how many times it calls self._step()
GotoSteps(e, target) ==
    LET pos == Max(target, 0)
        currentpos == e.pos \div Period(e)
        newpos == pos \div Period(e)
    IN  CASE e.VERSION \in {1, 2} ->
                 IF currentpos = newpos THEN 0
                 ELSE IF newpos > currentpos THEN newpos - currentpos
                 ELSE newpos
          [] OTHER -> IF e.pos >= target THEN Max(target - e.pos, 0) ELSE Max(target, 0)

\* goto_offset: whether it assigns the initial key ("start from beginning")
GotoResets(e, target) ==
    CASE e.VERSION \in {1, 2} ->
             Max(target, 0) \div Period(e) < e.pos \div Period(e)
      [] OTHER -> ~(e.pos >= target)

RECURSIVE DecryptFrom(_, _, _)
\* decrypt_int on data[i..] in order; acc holds the engine and the bytes
\* returned so far (the test one = one has each byte computed in turn)
DecryptFrom(acc, data, i) ==
    IF i > Len(data) THEN acc
    ELSE LET one == decrypt_int(acc.dctx, data[i])
         IN  IF one = one
             THEN DecryptFrom([dctx |-> one.dctx,
                               result |-> Append(acc.result, one.result)], data, i + 1)
             ELSE acc

\* a decrypt_block that decrypts every byte with the engine as it found it;
\* the byte-by-byte results tell it from decrypt_block
DecryptBlockOneKey(e, data) ==
    [dctx |-> DecryptFrom([dctx |-> e, result |-> <<>>], data, 1).dctx,
     result |-> [i \in 1..Len(data) |-> decrypt_int(e, data[i]).result]]

\* bytes(map(self.decrypt_int, data)): the engine afterwards and the bytes
decrypt_block(e, data) == DecryptFrom([dctx |-> e, result |-> <<>>], data, 1)

\* Version3Context.emit_header writing 0 in byte 7 whatever flipped is
V3EmitHeaderNoFlip(e) ==
    <<Not8(e.md5[5]), Not8(e.md5[6]), Not8(e.md5[7]), 12, 0, 0, 0,
      0,
      (e.name_sum \div 16777216) % 256, (e.name_sum \div 65536) % 256,
      (e.name_sum \div 256) % 256, e.name_sum % 256, 0, 0, 0, 0>>

V3EmitHeader(e) ==
    <<Not8(e.md5[5]), Not8(e.md5[6]), Not8(e.md5[7]), 12, 0, 0, 0,
      IF e.flipped THEN 1 ELSE 0,
      (e.name_sum \div 16777216) % 256, (e.name_sum \div 65536) % 256,
      (e.name_sum \div 256) % 256, e.name_sum % 256, 0, 0, 0, 0>>

V4EmitHeader(e) ==
    <<Not8(e.md5[5]), Not8(e.md5[6]), Not8(e.md5[7]), 12, 0, 0, e.lcg_index, 2,
      0, 0, 0, 0, 0, 0, 0, 0>>

emit_header(e) ==
    CASE e.VERSION = 1 -> <<>>
      [] e.VERSION = 2 -> e.header
      [] e.VERSION = 3 -> V3EmitHeader(e)
      [] OTHER -> V4EmitHeader(e)

(***************************************************************************)
(* dctx.py: _test_v3 and setup_v3.                                         *)
(***************************************************************************)
\* _test_v3 without the comparison of the first three bytes
TestV3LengthOnly(header, md5hash) ==
    IF IsNone(header) THEN None
    ELSE IF Len(header[1]) < 16 THEN Some("InsufficientHeaderDataError")
    ELSE None

\* _test_v3: the exception it raises, or None
_test_v3(header, md5hash) ==
    IF IsNone(header) THEN None
    ELSE IF Len(header[1]) < 16 THEN Some("InsufficientHeaderDataError")
    ELSE IF \/ header[1][1] # Not8(md5hash[5])
            \/ header[1][2] # Not8(md5hash[6])
            \/ header[1][3] # Not8(md5hash[7])
    THEN Some("InvalidHeaderError")
    ELSE None

\* the end of setup_v3 (from "if version <= 0" on), with the values the
\* header-driven part left in version, flip_v3, lcg_key_v4 and header_ns
SetupV3Build(prefix, digest, basename, key_tables, version, flip_v3, lcg_key_v4, enforce_ns_v3, header_ns) ==
    IF version <= 0 THEN Raise("VersionOutOfRange")
    ELSE IF version = 3
    THEN IF IsNone(key_tables) THEN Raise("KeyTablesMissingError")
         ELSE Version3Context(prefix, digest, basename, key_tables[1],
                              enforce_ns_v3, flip_v3, header_ns)
    ELSE IF version = 4 THEN Version4Context(digest, lcg_key_v4)
    ELSE Raise("VersionOutOfRange")

\* setup_v3 taking the LCG index of a version-4 header from header_test[5]
SetupV3LcgFromByte5(prefix, filename, key_tables, header_test, version, flip_v3, lcg_key_v4, enforce_ns_v3) ==
    LET m == calculate_md5(prefix, filename)
        h == header_test[1]
    IN  IF IsNone(header_test)
        THEN SetupV3Build(prefix, m.digest, m.basename, key_tables, version,
                          flip_v3, lcg_key_v4, enforce_ns_v3, None)
        ELSE IF ~IsNone(_test_v3(header_test, m.digest))
        THEN Raise(_test_v3(header_test, m.digest)[1])
        ELSE IF version <= 0
        THEN LET version1 == IF h[8] < 2 THEN 3 ELSE version
                 header_ns == IF h[8] < 2 THEN Some(h[11] * 256 + h[12]) ELSE None
             IN  IF h[8] = 2
                 THEN SetupV3Build(prefix, m.digest, m.basename, key_tables, 4,
                                   h[8] = 1, h[6], enforce_ns_v3, header_ns)
                 ELSE Raise("VersionUnsupported")
        ELSE IF version < 3 THEN Raise("VersionOutOfRange")
        ELSE SetupV3Build(prefix, m.digest, m.basename, key_tables, version,
                          h[8] = 1, lcg_key_v4, enforce_ns_v3, None)

setup_v3(prefix, filename, key_tables, header_test, version, flip_v3, lcg_key_v4, enforce_ns_v3) ==
    LET m == calculate_md5(prefix, filename)
        h == header_test[1]
    IN  IF IsNone(header_test)
        THEN SetupV3Build(prefix, m.digest, m.basename, key_tables, version,
                          flip_v3, lcg_key_v4, enforce_ns_v3, None)
        ELSE IF ~IsNone(_test_v3(header_test, m.digest))
        THEN Raise(_test_v3(header_test, m.digest)[1])
        ELSE IF version <= 0
        THEN LET \* if header_test[7] < 2: version = 3; header_ns = ...
                 version1 == IF h[8] < 2 THEN 3 ELSE version
                 header_ns == IF h[8] < 2 THEN Some(h[11] * 256 + h[12]) ELSE None
             IN  \* if header_test[7] == 2: ... else: raise VersionUnsupported
                 IF h[8] = 2
                 THEN SetupV3Build(prefix, m.digest, m.basename, key_tables, 4,
                                   h[8] = 1, h[7], enforce_ns_v3, header_ns)
                 ELSE Raise("VersionUnsupported")
        ELSE IF version < 3 THEN Raise("VersionOutOfRange")
        ELSE SetupV3Build(prefix, m.digest, m.basename, key_tables, version,
                          h[8] = 1, lcg_key_v4, enforce_ns_v3, None)

(***************************************************************************)
(* __init__.py: decrypt_setup, decrypt_setup_probe, encrypt_setup and      *)
(* encrypt_setup_by_gametype.                                              *)
(***************************************************************************)
_GAME_VERSIONS == <<"Version1Context", "Version2Context", "setup_v3", "setup_v3">>

_GAME_VERSIONS_PROBE == <<"Version2Context", "setup_v3", "setup_v3">>

\* context_class(prefix, filename, key_tables, header): the four positional
\* arguments; setup_v3 gets its keyword arguments' defaults
ContextClass(context_class, prefix, filename, key_tables, header) ==
    CASE context_class = "Version1Context" ->
            Version1Context(prefix, filename, Some(key_tables), Some(header))
      [] context_class = "Version2Context" ->
            Version2Context(prefix, filename, Some(key_tables), Some(header))
      [] OTHER ->
            setup_v3(prefix, filename, Some(key_tables), Some(header), 0, FALSE, 0, TRUE)

RECURSIVE ProbeVersions(_, _, _, _, _)
\* the loop of decrypt_setup over _GAME_VERSIONS_PROBE[i..]
ProbeVersions(i, prefix, filename, header, key_tables) ==
    IF i > Len(_GAME_VERSIONS_PROBE) THEN Raise("NoSuitableModeError")
    ELSE LET r == ContextClass(_GAME_VERSIONS_PROBE[i], prefix, filename,
                               key_tables, header)
         IN  IF r.ok THEN r
             ELSE IF IsValueError(r.error)
             THEN ProbeVersions(i + 1, prefix, filename, header, key_tables)
             ELSE r

decrypt_setup(prefix, filename, header, key_tables, version) ==
    IF Len(header) < 16 THEN Raise("InsufficientHeaderDataError")
    ELSE IF version = 0 THEN ProbeVersions(1, prefix, filename, header, key_tables)
    ELSE IF version < 0 \/ version > Len(_GAME_VERSIONS) THEN Raise("VersionOutOfRange")
    ELSE ContextClass(_GAME_VERSIONS[version], prefix, filename, key_tables, header)

RECURSIVE ProbeCombination(_, _, _, _)
\* the loop of decrypt_setup_probe over _COMBINATION[i..]
ProbeCombination(i, filename, header, version) ==
    IF i > Len(_COMBINATION) THEN Raise("NoSuitableModeError")
    ELSE LET r == decrypt_setup(_COMBINATION[i][2], filename, header,
                                _COMBINATION[i][3], version)
         IN  IF r.ok THEN [ok |-> TRUE, dctx |-> r.dctx, gametype |-> _COMBINATION[i][1]]
             ELSE IF IsValueError(r.error)
             THEN ProbeCombination(i + 1, filename, header, version)
             ELSE r

\* a decrypt_setup_probe whose loop starts at the second entry of
\* _COMBINATION
DecryptSetupProbeFromWW(filename, header, version) ==
    ProbeCombination(2, filename, header, version)

decrypt_setup_probe(filename, header, version) ==
    ProbeCombination(1, filename, header, version)

\* an encrypt_setup that takes version 0 for version 1; the rejection of
\* bad versions tells it from encrypt_setup
EncryptSetupLenient(prefix, filename, version, v3_flip_key, v3_key_tables, v4_lcg_index) ==
    IF version < 0 THEN Raise("VersionOutOfRange")
    ELSE IF version <= 1 THEN Version1Context(prefix, filename, Some(<<>>), None)
    ELSE IF version = 2 THEN Version2Context(prefix, filename, Some(<<>>), None)
    ELSE IF IsNone(v3_key_tables) /\ version = 3 THEN Raise("KeyTablesMissingError")
    ELSE setup_v3(prefix, filename,
                  IF IsNone(v3_key_tables) THEN Some(<<>>) ELSE v3_key_tables,
                  None, version, v3_flip_key, v4_lcg_index, TRUE)

encrypt_setup(prefix, filename, version, v3_flip_key, v3_key_tables, v4_lcg_index) ==
    IF version < 0 THEN Raise("VersionOutOfRange")
    ELSE IF version = 1 THEN Version1Context(prefix, filename, Some(<<>>), None)
    ELSE IF version = 2 THEN Version2Context(prefix, filename, Some(<<>>), None)
    ELSE IF IsNone(v3_key_tables) /\ version = 3 THEN Raise("KeyTablesMissingError")
    ELSE setup_v3(prefix, filename,
                  IF IsNone(v3_key_tables) THEN Some(<<>>) ELSE v3_key_tables,
                  None, version, v3_flip_key, v4_lcg_index, TRUE)

\* str.casefold on the game type names the model uses
Casefold(s) ==
    CASE s \in {"JP", "Jp", "jP", "jp"} -> "jp"
      [] s \in {"WW", "Ww", "wW", "ww"} -> "ww"
      [] s \in {"TW", "Tw", "tW", "tw"} -> "tw"
      [] s \in {"CN", "Cn", "cN", "cn"} -> "cn"
      [] s \in {"EN", "En", "eN", "en"} -> "en"
      [] OTHER -> s

RECURSIVE EncryptByGametype(_, _, _, _, _, _)
\* the loop of encrypt_setup_by_gametype over _COMBINATION[i..]
EncryptByGametype(i, gametype, filename, version, v3_flip_key, v4_lcg_index) ==
    IF i > Len(_COMBINATION) THEN Raise("InvalidGameType")
    ELSE IF Casefold(gametype) = Casefold(_COMBINATION[i][1])
    THEN encrypt_setup(_COMBINATION[i][2], filename, version, v3_flip_key,
                       Some(_COMBINATION[i][3]), v4_lcg_index)
    ELSE EncryptByGametype(i + 1, gametype, filename, version, v3_flip_key,
                           v4_lcg_index)

encrypt_setup_by_gametype(gametype, filename, version, v3_flip_key, v4_lcg_index) ==
    EncryptByGametype(1, gametype, filename, version, v3_flip_key, v4_lcg_index)

(***************************************************************************)
(* The inputs of the model.                                                *)
(***************************************************************************)
\* b"test.bin" and b"assets/a.png"
Filenames ==
    { <<116, 101, 115, 116, 46, 98, 105, 110>>,
      <<97, 115, 115, 101, 116, 115, 47, 97, 46, 112, 110, 103>> }

GameTypes == {"JP", "WW", "TW", "CN"}

\* the region names callers pass: the four of _COMBINATION in other cases,
\* the alias of NAME_PREFIX_EN, a name that is no region, and no name
GameTypeNames == {"jp", "Ww", "tW", "cn", "EN", "sif", ""}

\* the version numbers callers pass: below, inside and above 1..4
MaxVersion == 5

Versions == -1..MaxVersion

\* the lengths of the plaintexts that are encrypted
PlainLens == {0, 1, 3, 4, 5, 16, 64}

\* the plaintext of length n
Plain(n) == [i \in 1..n |-> (i * 37 + 11) % 256]

\* the index in _COMBINATION of a game type
Region(gametype) == CHOOSE i \in 1..Len(_COMBINATION) : _COMBINATION[i][1] = gametype

\* the bits <<byte, bit>> a damaged or foreign file may have flipped in its
\* header: bit 2 of header[6], bits 0 and 1 of header[7]
HeaderFlips == {<<7, 2>>, <<8, 0>>, <<8, 1>>}

\* the headers a caller may pass for a file: its first 16 bytes (f.read(16)),
\* or those with one of HeaderFlips flipped
HeadersOf(f) ==
    {Take(f, 16)} \cup
    { [Take(f, 16) EXCEPT ![x[1]] = FlipBit(@, x[2])] :
          x \in {y \in HeaderFlips : y[1] <= Len(f)} }

(***************************************************************************)
(* The set-up calls: what a program using the package does with a file.    *)
(***************************************************************************)
NoCall == [op |-> "none"]

NoEngine == [VERSION |-> 0]

InitCommon ==
    /\ \E n \in PlainLens : file = Plain(n)
    /\ made = [op |-> "none"]
    /\ call = NoCall
    /\ ret = Raise("none")
    /\ session = [kind |-> "none"]
    /\ inp = <<>>
    /\ outp = <<>>

Init == InitCommon /\ dctx = NoEngine

\* __main__.main_entry, encrypt branch, in place: encrypt_setup_by_gametype,
\* contents = the file, then a StreamIOWrapper opened on the same path with
\* write_header = True (emit_header is written, goto_offset(0) is called)
\* and write(contents)
EncryptFile(gametype, filename, version, flip, lcg) ==
    LET r == encrypt_setup_by_gametype(gametype, filename, version, flip, lcg)
        c == [op |-> "encrypt_setup_by_gametype", gametype |-> gametype,
              filename |-> filename, version |-> version, flip |-> flip,
              lcg |-> lcg, plain |-> file]
    IN  /\ call' = c
        /\ ret' = r
        /\ IF r.ok
           THEN /\ file' = emit_header(r.dctx) \o
                           decrypt_block(goto_offset(r.dctx, 0), file).result
                /\ made' = c
           ELSE UNCHANGED <<file, made>>
        /\ outp' = <<>>
        /\ UNCHANGED <<dctx, session, inp>>

\* encrypt_setup(prefix, filename, version, v3_key_tables=v3_key_tables)
\* with the prefix of _COMBINATION[i]
EncryptSetup(i, filename, version, v3_key_tables) ==
    /\ call' = [op |-> "encrypt_setup", region |-> i, filename |-> filename,
                version |-> version, v3_key_tables |-> v3_key_tables]
    /\ ret' = encrypt_setup(_COMBINATION[i][2], filename, version, FALSE,
                            v3_key_tables, 0)
    /\ outp' = <<>>
    /\ UNCHANGED <<file, made, dctx, session, inp>>

\* encrypt_setup_by_gametype(gametype, filename, version) for a region name
\* of GameTypeNames
EncryptSetupByGametype(gametype, filename, version) ==
    /\ call' = [op |-> "encrypt_setup_by_gametype", gametype |-> gametype,
                filename |-> filename, version |-> version, flip |-> FALSE,
                lcg |-> 0, plain |-> <<>>]
    /\ ret' = encrypt_setup_by_gametype(gametype, filename, version, FALSE, 0)
    /\ outp' = <<>>
    /\ UNCHANGED <<file, made, dctx, session, inp>>

\* decrypt_setup(prefix, filename, header, key_tables, version) with the
\* prefix and key table of _COMBINATION[i]
DecryptSetup(i, filename, header, version) ==
    /\ call' = [op |-> "decrypt_setup", region |-> i, filename |-> filename,
                header |-> header, version |-> version]
    /\ ret' = decrypt_setup(_COMBINATION[i][2], filename, header,
                            _COMBINATION[i][3], version)
    /\ outp' = <<>>
    /\ UNCHANGED <<file, made, dctx, session, inp>>

\* decrypt_setup_probe(filename, header, version=version)
DecryptSetupProbe(filename, header, version) ==
    /\ call' = [op |-> "decrypt_setup_probe", filename |-> filename,
                header |-> header, version |-> version]
    /\ ret' = decrypt_setup_probe(filename, header, version)
    /\ outp' = <<>>
    /\ UNCHANGED <<file, made, dctx, session, inp>>

\* setup_v3(prefix, filename, key_tables, header, version=version) with
\* _COMBINATION[i]
SetupV3(i, filename, header, version) ==
    /\ call' = [op |-> "setup_v3", region |-> i, filename |-> filename,
                header |-> header, version |-> version]
    /\ ret' = setup_v3(_COMBINATION[i][2], filename, Some(_COMBINATION[i][3]),
                       Some(header), version, FALSE, 0, TRUE)
    /\ outp' = <<>>
    /\ UNCHANGED <<file, made, dctx, session, inp>>

\* Version2Context(prefix, filename) with the prefix of _COMBINATION[i]:
\* header_test is None
NewVersion2Context(i, filename) ==
    /\ call' = [op |-> "Version2Context", region |-> i, filename |-> filename,
                header_test |-> None, emitted |-> <<>>]
    /\ ret' = Version2Context(_COMBINATION[i][2], filename, None, None)
    /\ outp' = <<>>
    /\ UNCHANGED <<file, made, dctx, session, inp>>

\* emit_header() of the Version2Context just built, then a fresh
\* Version2Context(prefix, filename, None, header_test) for the same prefix
\* and file name
V2FeedBack(header_test) ==
    /\ call.op = "Version2Context" /\ ret.ok /\ IsNone(call.header_test)
    /\ call' = [call EXCEPT !.header_test = Some(header_test),
                            !.emitted = emit_header(ret.dctx)]
    /\ ret' = Version2Context(_COMBINATION[call.region][2], call.filename, None,
                              Some(header_test))
    /\ outp' = <<>>
    /\ UNCHANGED <<file, made, dctx, session, inp>>

\* Version3Context(prefix, digest, basename, key_tables, enforce_ns,
\*                 flip=flip, header_ns=header_ns), as setup_v3 calls it
NewVersion3Context(i, filename, enforce_ns, flip, header_ns) ==
    LET m == calculate_md5(_COMBINATION[i][2], filename)
    IN  /\ call' = [op |-> "Version3Context", region |-> i, filename |-> filename,
                    enforce_ns |-> enforce_ns, flip |-> flip, header_ns |-> header_ns]
        /\ ret' = Version3Context(_COMBINATION[i][2], m.digest, m.basename,
                                  _COMBINATION[i][3], enforce_ns, flip, header_ns)
        /\ outp' = <<>>
        /\ UNCHANGED <<file, made, dctx, session, inp>>

\* __main__.main_entry, decrypt branch after the set-up: f.seek(HEADER_SIZE),
\* then decrypt_block(f.read()) on the engine the set-up returned
ReadAll ==
    /\ call.op \in {"decrypt_setup", "decrypt_setup_probe"}
    /\ ret.ok
    /\ session.kind = "none"
    /\ session' = [kind |-> "read"]
    /\ outp' = decrypt_block(ret.dctx, Drop(file, HEADER_SIZE(ret.dctx))).result
    /\ UNCHANGED <<file, made, call, ret, dctx, inp>>

\* h with one bit flipped, for every bit of h
BitFlips(h) == { [h EXCEPT ![j] = FlipBit(@, k)] : j \in 1..Len(h), k \in 0..7 }

\* the name sum of a prefix and a file name
NameSum(i, filename) == SumBytes(_COMBINATION[i][2]) + SumBytes(Basename(filename))

\* the header_ns values given to Version3Context: None, the name sum, its
\* low 16 bits as setup_v3 reads them from a header, or another number
HeaderNameSums(i, filename) ==
    {None, Some(NameSum(i, filename)), Some(NameSum(i, filename) % 65536),
     Some(NameSum(i, filename) + 1), Some(NameSum(i, filename) + 64)}

\* the last call is the decrypt_setup_probe(args.input, f.read(16)) of
\* __main__.main_entry
MainEntryRun ==
    /\ call.op = "decrypt_setup_probe"
    /\ call.version = 0
    /\ call.header = Take(file, 16)

\* __main__.main_entry, the end of the decrypt branch: decrypted_data is
\* written to args.output or, without an output path, to the input file
\* itself, which then holds the decrypted bytes and is an encrypted file no
\* more; main_entry returns.  With an output path outp is the output file.
Save(in_place) ==
    /\ session.kind = "read"
    /\ MainEntryRun
    /\ IF in_place
       THEN /\ file' = outp
            /\ made' = [op |-> "none"]
            /\ outp' = <<>>
       ELSE UNCHANGED <<file, made, outp>>
    /\ call' = NoCall
    /\ ret' = Raise("none")
    /\ session' = [kind |-> "none"]
    /\ UNCHANGED <<dctx, inp>>

\* the caller drops what the last call returned and is ready for another
\* call: main_entry returns from the encrypt branch or the detect branch or
\* with the exception of the probe, a program that called the set-up
\* functions itself lets the result go
Discard ==
    /\ call # NoCall
    /\ ~(session.kind = "read" /\ MainEntryRun)
    /\ call' = NoCall
    /\ ret' = Raise("none")
    /\ session' = [kind |-> "none"]
    /\ outp' = <<>>
    /\ UNCHANGED <<file, made, dctx, inp>>

NoFile == made.op = "none"

Next ==
    \/ /\ NoFile /\ call = NoCall
       /\ \E g \in GameTypes, f \in Filenames, v \in Versions, flip \in BOOLEAN,
             lcg \in 0..3 :
             /\ (flip => v = 3)
             /\ (lcg # 0 => v = 4)
             /\ EncryptFile(g, f, v, flip, lcg)
    \/ /\ NoFile /\ call = NoCall
       /\ \E i \in 1..Len(_COMBINATION), f \in Filenames, v \in Versions :
             \E kt \in {None, Some(_COMBINATION[i][3])} : EncryptSetup(i, f, v, kt)
    \/ /\ NoFile /\ call = NoCall
       /\ \E g \in GameTypeNames, f \in Filenames, v \in Versions :
             EncryptSetupByGametype(g, f, v)
    \/ /\ ~NoFile /\ call = NoCall
       /\ \E i \in 1..Len(_COMBINATION), f \in Filenames, h \in HeadersOf(file),
             v \in Versions :
             DecryptSetup(i, f, h, v)
    \/ /\ ~NoFile /\ call = NoCall
       /\ \E f \in Filenames, h \in HeadersOf(file), v \in Versions :
             DecryptSetupProbe(f, h, v)
    \/ /\ ~NoFile /\ call = NoCall
       /\ \E i \in 1..Len(_COMBINATION), f \in Filenames, h \in HeadersOf(file),
             v \in {0, 3, 4} :
             SetupV3(i, f, h, v)
    \/ /\ NoFile /\ call = NoCall
       /\ \E i \in 1..Len(_COMBINATION), f \in Filenames : NewVersion2Context(i, f)
    \/ /\ call.op = "Version2Context" /\ ret.ok /\ IsNone(call.header_test)
       /\ \E h \in {emit_header(ret.dctx)} \cup BitFlips(emit_header(ret.dctx)) :
             V2FeedBack(h)
    \/ /\ NoFile /\ call = NoCall
       /\ \E i \in 1..Len(_COMBINATION), f \in Filenames, en \in BOOLEAN,
             flip \in BOOLEAN :
             \E ns \in HeaderNameSums(i, f) : NewVersion3Context(i, f, en, flip, ns)
    \/ ReadAll
    \/ \E in_place \in BOOLEAN : Save(in_place)
    \/ Discard

Spec == Init /\ [][Next]_vars

(***************************************************************************)
(* Claims about the set-up calls, checked under Spec.                      *)
(***************************************************************************)
\* the last call decrypted the file on disk, of at least the 16 bytes
\* decrypt_setup wants of a header, with the arguments it was encrypted
\* with: same region, file name and version, its leading bytes
SameAsMade ==
    /\ ~NoFile
    /\ Len(file) >= 16
    /\ call.op = "decrypt_setup"
    /\ call.region = Region(made.gametype)
    /\ call.filename = made.filename
    /\ call.version = made.version
    /\ call.header = Take(file, 16)

\* C1: round trip through the public API: a file written as emit_header()
\* followed by decrypt_block(plaintext) on the engine of
\* encrypt_setup_by_gametype(region, filename, v) is accepted by
\* decrypt_setup for the same region, file name and version, and decrypting
\* the bytes after HEADER_SIZE gives the plaintext back.  (Stated for the
\* files of at least 16 bytes.)
C1_RoundTrip ==
    SameAsMade =>
        /\ ret.ok
        /\ session.kind = "read" => outp = made.plain

\* the last call probed a file encrypted under WW with version 3 and at
\* least 64 bytes of ciphertext, with its file name and first 16 bytes
ProbedWW3 ==
    /\ ~NoFile
    /\ made.gametype = "WW" /\ made.version = 3 /\ Len(made.plain) >= 64
    /\ call.op = "decrypt_setup_probe"
    /\ call.filename = made.filename
    /\ call.header = Take(file, 16)
    /\ call.version = 0

\* C4: decrypt_setup_probe on a file encrypted under region WW with version
\* 3 returns a version-3 engine together with region "WW".
C4_ProbeFindsRegion ==
    ProbedWW3 => ret.ok /\ ret.dctx.VERSION = 3 /\ ret.gametype = "WW"

\* the last call was setup_v3 with version 0 and a 16-byte header that
\* passes the complement-of-digest check
DispatchedByHeader ==
    /\ call.op = "setup_v3"
    /\ call.version = 0
    /\ Len(call.header) = 16
    /\ IsNone(_test_v3(Some(call.header),
                       calculate_md5(_COMBINATION[call.region][2], call.filename).digest))

\* C5: header-to-version dispatch: header[7] = 0 or 1 yields a version-3
\* engine, header[7] = 2 a version-4 engine, header[7] = 3 raises
\* VersionUnsupported.
C5_HeaderDispatch ==
    DispatchedByHeader =>
        /\ call.header[8] \in {0, 1} => ret.ok /\ ret.dctx.VERSION = 3
        /\ call.header[8] = 2 => ret.ok /\ ret.dctx.VERSION = 4
        /\ call.header[8] = 3 => ret = Raise("VersionUnsupported")

\* the candidates of a probe in the order they are tried: region i of
\* _COMBINATION, probe k of _GAME_VERSIONS_PROBE
Candidates ==
    { <<i, k>> : i \in 1..Len(_COMBINATION), k \in 1..Len(_GAME_VERSIONS_PROBE) }

Before(x, y) == x[1] < y[1] \/ (x[1] = y[1] /\ x[2] < y[2])

\* what constructing candidate x gives for a file name and a header
Construct(x, filename, header) ==
    ContextClass(_GAME_VERSIONS_PROBE[x[2]], _COMBINATION[x[1]][2], filename,
                 _COMBINATION[x[1]][3], header)

\* C6: decrypt_setup_probe with version 0 tries the regions in the order JP,
\* WW, TW, CN and in a region the V2 probe before the V3/V4 probe; it returns
\* the engine and region of the first candidate whose construction
\* succeeds, and raises NoSuitableModeError if and only if every candidate
\* construction fails.  (Stated for headers of at least 16 bytes.)
C6_ProbeOrder ==
    (call.op = "decrypt_setup_probe" /\ call.version = 0 /\ Len(call.header) >= 16) =>
        LET good == { x \in Candidates : Construct(x, call.filename, call.header).ok }
        IN  IF good = {} THEN ret = Raise("NoSuitableModeError")
            ELSE LET first == CHOOSE x \in good : \A y \in good : x = y \/ Before(x, y)
                 IN  /\ ret.ok
                     /\ ret.dctx = Construct(first, call.filename, call.header).dctx
                     /\ ret.gametype = _COMBINATION[first[1]][1]

\* C7: decrypt_setup with an explicit version v in 1..4 either raises or
\* returns an engine whose VERSION is v.
C7_ExplicitVersion ==
    (call.op = "decrypt_setup" /\ call.version \in 1..4 /\ ret.ok) =>
        ret.dctx.VERSION = call.version

\* C8: a user-input error (a header shorter than 16 bytes, an explicit
\* version outside the supported range) given to decrypt_setup_probe reaches
\* the caller as that user-input error, not as NoSuitableModeError.
C8_UserErrorsSurface ==
    (call.op = "decrypt_setup_probe" /\
        (Len(call.header) < 16 \/ call.version \notin 0..4)) =>
        /\ ~ret.ok
        /\ ret.error \in {"InsufficientHeaderDataError", "VersionOutOfRange"}
        /\ Len(call.header) >= 16 => ret.error = "VersionOutOfRange"
        /\ call.version \in 0..4 => ret.error = "InsufficientHeaderDataError"

\* a second Version2Context was given a header_test
FedBack == call.op = "Version2Context" /\ ~IsNone(call.header_test)

\* C9: the 4-byte header a Version2Context built with header_test = None
\* emits is accepted as header_test by a fresh Version2Context for the same
\* prefix and file name, and the same header with any single bit flipped
\* makes construction fail with InvalidHeaderError.
C9_V2HeaderRoundTrip ==
    FedBack =>
        /\ Len(call.emitted) = 4
        /\ call.header_test[1] = call.emitted => ret.ok
        /\ call.header_test[1] \in BitFlips(call.emitted) =>
               ret = Raise("InvalidHeaderError")

\* C9's case: a header with its last bit flipped was fed back and refused
C9_Witness ==
    /\ FedBack
    /\ call.header_test[1] = [call.emitted EXCEPT ![4] = FlipBit(@, 0)]
    /\ ~ret.ok

\* C10: a Version3Context constructed with strict enforcement and a
\* header-declared name_sum that differs from the one recomputed from prefix
\* and basename fails with NameSumMismatchError.
C10_StrictNameSum ==
    (/\ call.op = "Version3Context"
     /\ call.enforce_ns
     /\ ~IsNone(call.header_ns)
     /\ call.header_ns[1] # NameSum(call.region, call.filename)) =>
        ret = Raise("NameSumMismatchError")

\* C11: bad caller input on the encrypt path is rejected: encrypt_setup
\* raises VersionOutOfRange for every version outside 1..4, raises
\* KeyTablesMissingError for version 3 with no key table, and
\* encrypt_setup_by_gametype raises InvalidGameType for every region name
\* that is not JP, WW, TW or CN in any case; no engine is returned.
C11_EncryptRejectsBadInput ==
    /\ (call.op = "encrypt_setup" /\ call.version \notin 1..4) =>
           ret = Raise("VersionOutOfRange")
    /\ (call.op = "encrypt_setup" /\ call.version = 3 /\ IsNone(call.v3_key_tables)) =>
           ret = Raise("KeyTablesMissingError")
    /\ (call.op = "encrypt_setup_by_gametype" /\
           Casefold(call.gametype) \notin {"jp", "ww", "tw", "cn"}) =>
           ret = Raise("InvalidGameType")

\* C11's case: encrypt_setup was called with version 0 and raised
C11_Witness ==
    /\ call.op = "encrypt_setup"
    /\ call.version = 0
    /\ ~ret.ok

(***************************************************************************)
(* One engine in use: after its construction, any sequence of decrypt_int  *)
(* and goto_offset calls.  ret keeps the engine as it was constructed,     *)
(* dctx is the engine the calls act on.  session.kind tells what the       *)
(* engine has seen: "fresh" nothing, "sequential" decrypt_int only,        *)
(* "seeked" one goto_offset(session.at) and then decrypt_int only, "mixed" *)
(* anything else, "stream" that a StreamIOWrapper was opened on it for     *)
(* writing; file is then what the underlying stream holds and inp the      *)
(* payload written.  call.before is the engine as the call found it.       *)
(***************************************************************************)
\* the bytes given to decrypt_int
DataBytes == {0, 165}

\* at most this many bytes are decrypted between two goto_offset calls
MaxRun == 3

\* at most this many goto_offset calls are made on one engine
MaxSeeks == 2

\* the goto_offset targets: the positions around one period and ten periods
\* on, and a negative one
SeekTargets(e) ==
    {-1, 0, 1, Period(e) - 1, Period(e), Period(e) + 1, 10 * Period(e)}

InitEngine ==
    \E g \in GameTypes, f \in Filenames, v \in 1..4, flip \in BOOLEAN, lcg \in 0..3 :
        /\ (flip => v = 3)
        /\ (lcg # 0 => v = 4)
        /\ made = [op |-> "encrypt_setup_by_gametype", gametype |-> g,
                   filename |-> f, version |-> v, flip |-> flip, lcg |-> lcg]
        /\ ret = encrypt_setup_by_gametype(g, f, v, flip, lcg)
        /\ dctx = ret.dctx
        /\ file = <<>>
        /\ call = NoCall
        /\ session = [kind |-> "fresh", seeks |-> 0]
        /\ inp = <<>>
        /\ outp = <<>>

\* the lengths of the byte strings given to decrypt_block and write
BlockLens == {0, 2}

\* the byte strings given to decrypt_block and write
Blocks == UNION { [1..n -> DataBytes] : n \in BlockLens }

\* dctx.decrypt_int(data)
DecryptInt(data) ==
    /\ session.kind # "stream"
    /\ Len(inp) < MaxRun
    /\ dctx' = decrypt_int(dctx, data).dctx
    /\ inp' = Append(inp, data)
    /\ outp' = Append(outp, decrypt_int(dctx, data).result)
    /\ call' = [op |-> "decrypt_int", data |-> data]
    /\ session' = IF session.kind = "fresh" THEN [session EXCEPT !.kind = "sequential"]
                  ELSE session
    /\ UNCHANGED <<file, made, ret>>

\* dctx.decrypt_block(data), as the first call on a new engine or the first
\* after a goto_offset
DecryptBlock(data) ==
    /\ session.kind # "stream"
    /\ inp = <<>>
    /\ Len(data) <= MaxRun
    /\ dctx' = decrypt_block(dctx, data).dctx
    /\ inp' = inp \o data
    /\ outp' = outp \o decrypt_block(dctx, data).result
    /\ call' = [op |-> "decrypt_block", data |-> data, before |-> dctx]
    /\ session' = IF session.kind = "fresh" THEN [session EXCEPT !.kind = "sequential"]
                  ELSE session
    /\ UNCHANGED <<file, made, ret>>

\* dctx.goto_offset(pos)
GotoOffset(pos) ==
    /\ session.kind # "stream"
    /\ session.seeks < MaxSeeks
    /\ dctx' = goto_offset(dctx, pos)
    /\ inp' = <<>>
    /\ outp' = <<>>
    /\ call' = [op |-> "goto_offset", pos |-> pos, before |-> dctx,
                steps |-> GotoSteps(dctx, pos), resets |-> GotoResets(dctx, pos)]
    /\ session' = IF session.kind = "fresh"
                  THEN [kind |-> "seeked", seeks |-> 1, at |-> pos]
                  ELSE [kind |-> "mixed", seeks |-> session.seeks + 1]
    /\ UNCHANGED <<file, made, ret>>

\* the underlying stream of a StreamIOWrapper, with the behaviour of
\* io.BytesIO: its content after write(b) at position p (a write of at
\* least one byte beyond the end fills the gap with zero bytes, a write of
\* no bytes changes nothing)
StreamPut(content, p, b) ==
    LET padded == IF p > Len(content)
                  THEN content \o [i \in 1..(p - Len(content)) |-> 0]
                  ELSE content
    IN  IF b = <<>> THEN content
        ELSE SubSeq(padded, 1, p) \o b \o Drop(padded, p + Len(b))

\* what read(n) at position p returns: at most n bytes, all the rest for a
\* negative n
StreamGet(content, p, n) ==
    IF p >= Len(content) THEN <<>>
    ELSE IF n < 0 THEN Drop(content, p)
    ELSE SubSeq(content, p + 1, IF p + n < Len(content) THEN p + n ELSE Len(content))

\* the position seek(offset, whence) at position p moves to and returns;
\* None for a negative offset with SEEK_SET, which raises ValueError
StreamSeekTo(content, p, offset, whence) ==
    CASE whence = "SEEK_SET" -> IF offset < 0 THEN None ELSE Some(offset)
      [] whence = "SEEK_CUR" -> Some(Max(0, p + offset))
      [] OTHER -> Some(Max(0, Len(content) + offset))

\* StreamIOWrapper(stream, dctx, True) on an empty stream, with an engine
\* that is new or has decrypted some bytes: the header is written and
\* goto_offset(0) is called
OpenStream ==
    /\ session.kind \in {"fresh", "sequential"}
    /\ file' = StreamPut(<<>>, 0, emit_header(dctx))
    /\ dctx' = goto_offset(dctx, 0)
    /\ inp' = <<>>
    /\ outp' = <<>>
    /\ call' = [op |-> "StreamIOWrapper", write_header |-> TRUE, before |-> dctx]
    /\ session' = [kind |-> "stream", seeks |-> session.seeks,
                   spos |-> Len(emit_header(dctx)), closed |-> FALSE]
    /\ UNCHANGED <<made, ret>>

\* StreamIOWrapper.write(s): decrypt_block(s) runs first, so the engine has
\* advanced when the write of a closed stream raises ValueError.  inp is
\* what has been passed to write.
StreamWrite(s) ==
    /\ session.kind = "stream"
    /\ s # <<>>
    /\ Len(inp) + Len(s) <= MaxRun
    /\ dctx' = decrypt_block(dctx, s).dctx
    /\ inp' = inp \o s
    /\ call' = [op |-> "write", s |-> s, raised |-> session.closed]
    /\ IF session.closed
       THEN UNCHANGED <<file, session>>
       ELSE /\ file' = StreamPut(file, session.spos, decrypt_block(dctx, s).result)
            /\ session' = [session EXCEPT !.spos = @ + Len(s)]
    /\ UNCHANGED <<made, ret, outp>>

NextEngine ==
    \/ \E data \in DataBytes : DecryptInt(data)
    \/ \E data \in Blocks : DecryptBlock(data)
    \/ \E pos \in SeekTargets(dctx) : GotoOffset(pos)
    \/ OpenStream
    \/ \E s \in Blocks : StreamWrite(s)

SpecEngine == InitEngine /\ [][NextEngine]_vars

(***************************************************************************)
(* Claims about one engine, checked under SpecEngine.                      *)
(***************************************************************************)
\* the key-schedule state of an engine
KeyState(e) ==
    CASE e.VERSION = 1 -> <<e.xor_key>>
      [] e.VERSION = 2 -> <<e.update_key, e.xor_key>>
      [] OTHER -> <<e.update_key>>

\* n bytes to be decrypted and discarded
Skipped(n) == [i \in 1..n |-> 0]

\* the session is a fresh engine, goto_offset(p) for one of the claim's p,
\* then bytes decrypted
SeekedFresh ==
    /\ session.kind = "seeked"
    /\ session.at \in {0, 1, Period(dctx) - 1, Period(dctx), Period(dctx) + 1,
                       10 * Period(dctx)}

\* C2: seek equivalence on a fresh engine: goto_offset(p) on a newly
\* constructed engine and then decrypting k bytes yields the same bytes as
\* an identically constructed engine that decrypts p + k bytes from offset
\* 0 and discards the first p, for p in {0, 1, period - 1, period,
\* period + 1, 10 * period}.
C2_SeekEquivalence ==
    SeekedFresh =>
        outp = Drop(decrypt_block(ret.dctx, Skipped(session.at) \o inp).result,
                    session.at)

\* C2's case: a fresh engine sought ten periods on and decrypted MaxRun bytes
C2_Witness ==
    /\ session.kind = "seeked"
    /\ session.at = 10 * Period(dctx)
    /\ Len(outp) = MaxRun

\* C3: in every state reachable by decrypt_int and goto_offset calls, the
\* key-schedule state equals the initial key state advanced exactly
\* floor(pos / period) steps.
C3_KeyFollowsPos ==
    dctx.pos >= 0 =>
        KeyState(dctx) = KeyState(StepN(ret.dctx, dctx.pos \div Period(dctx)))

RECURSIVE ByteByByte(_, _)
\* the results of calling decrypt_int on each byte of d in order, on engine e
ByteByByte(e, d) ==
    IF d = <<>> THEN <<>>
    ELSE LET one == decrypt_int(e, Head(d))
         IN  <<one.result>> \o ByteByByte(one.dctx, Tail(d))

\* C12: decrypt_block is element-wise and order-preserving: decrypt_block(d)
\* returns len(d) values in 0..255 equal to the results of calling
\* decrypt_int on each byte of d in order, and advances pos by exactly len(d).
C12_BlockElementWise ==
    call.op = "decrypt_block" =>
        /\ Len(outp) = Len(call.data)
        /\ \A i \in 1..Len(outp) : outp[i] \in 0..255
        /\ outp = ByteByByte(call.before, call.data)
        /\ dctx.pos = call.before.pos + Len(call.data)

\* C12's case: two bytes were decrypted as a block by an engine that had
\* been moved off the start
C12_Witness ==
    /\ call.op = "decrypt_block"
    /\ Len(call.data) = 2
    /\ call.before.pos > 0
    /\ Len(outp) = 2

\* C13: the cipher is an involution: an engine constructed with the same
\* parameters and at pos 0 turns the bytes a new engine produced back into
\* the bytes it was given.
C13_Involution ==
    session.kind = "sequential" =>
        /\ outp = decrypt_block(ret.dctx, inp).result
        /\ decrypt_block(ret.dctx, outp).result = inp

\* C13's case: a new engine has decrypted MaxRun bytes and changed them
C13_Witness ==
    /\ session.kind = "sequential"
    /\ Len(inp) = MaxRun
    /\ outp # inp

\* C14: a StreamIOWrapper opened with write_header = True writes exactly the
\* engine's emit_header() bytes before any payload byte, and the first
\* payload byte written afterwards is encrypted with the engine at pos 0 in
\* its initial key state.
C14_HeaderThenPayload ==
    session.kind = "stream" =>
        /\ file = emit_header(ret.dctx) \o Drop(file, HEADER_SIZE(dctx))
        /\ Len(file) = HEADER_SIZE(dctx) + Len(inp)
        /\ inp = <<>> => dctx.pos = 0 /\ KeyState(dctx) = KeyState(ret.dctx)
        /\ inp # <<>> =>
               file[HEADER_SIZE(dctx) + 1] = decrypt_int(ret.dctx, inp[1]).result

\* the last call was goto_offset
IsGoto == call.op = "goto_offset"

\* floor(pos / period) of the engine as goto_offset found it
CurrentStep == call.before.pos \div Period(dctx)

\* floor(target / period) of the target, clamped to be non-negative
TargetStep == Max(call.pos, 0) \div Period(dctx)

\* C15: backward seek replays from the initial state: when goto_offset is
\* called with a target whose step index is lower than the current step
\* index, the engine's key state afterwards equals that of a fresh engine
\* advanced target_step steps.
C15_BackwardReplays ==
    (IsGoto /\ TargetStep < CurrentStep) =>
        KeyState(dctx) = KeyState(StepN(ret.dctx, TargetStep))

\* C16: after goto_offset(t) the engine's pos equals max(t, 0), for every
\* integer t, negative ones included.
C16_SeekClamps ==
    IsGoto => dctx.pos = Max(call.pos, 0)

\* C17: forward seek advances by the distance only: when goto_offset is
\* called with target_step greater than current_step, the key schedule is
\* not reset to its initial state and the step function is invoked exactly
\* target_step - current_step times.  (Stated for engines at pos >= 0, by
\* the number of steps and the key state they leave.)
C17_ForwardByDistance ==
    (IsGoto /\ call.before.pos >= 0 /\ TargetStep > CurrentStep) =>
        /\ call.steps = TargetStep - CurrentStep
        /\ KeyState(dctx) = KeyState(StepN(call.before, TargetStep - CurrentStep))

\* C18: sub-period repositioning changes only pos: when goto_offset is
\* called with a target in the same step as the current pos, every
\* key-schedule field is left unchanged and only pos is updated.
C18_SamePeriodOnlyPos ==
    (IsGoto /\ (TargetStep = CurrentStep \/
                call.pos \div Period(dctx) = CurrentStep)) =>
        dctx = [call.before EXCEPT !.pos = dctx.pos]

\* C18's case: an engine past its first step was moved inside its step
C18_Witness ==
    /\ IsGoto
    /\ TargetStep = CurrentStep
    /\ CurrentStep > 0
    /\ dctx.pos # call.before.pos

\* C19: in every state of a V2 engine reachable by decrypt_int and
\* goto_offset calls, xor_key is derived from update_key:
\* xor_key = ((update_key >> 23) & 0xFF) | ((update_key >> 7) & 0xFF00).
C19_V2XorKeyDerived ==
    dctx.VERSION = 2 => dctx.xor_key = V2XorKey(dctx.update_key)

\* C20: in one V2 key-schedule step with pre-normalization sum d, the new
\* update_key is (d - 0x7FFFFFFF) mod 2^32 when d is above 0x7FFFFFFE and d
\* otherwise, so that update_key stays in 0..0x7FFFFFFE after every step.
\* (Stated of the step a V2 engine takes when it decrypts the two bytes of
\* one period.)
C20_V2Normalization ==
    (/\ call.op = "decrypt_block"
     /\ call.before.VERSION = 2
     /\ call.before.pos % 2 = 0
     /\ Len(call.data) = 2) =>
        LET d == V2StepSum(call.before.update_key)
            f == dctx.update_key
        IN  /\ Gt32(d, <<32767, 65534>>) => f = Sub32(d, <<32767, 65535>>)
            /\ ~Gt32(d, <<32767, 65534>>) => f = d
            /\ ~Gt32(f, <<32767, 65534>>)

(***************************************************************************)
(* Further properties of the set-up calls and of the files they write,     *)
(* under Spec.                                                             *)
(***************************************************************************)

\* the last call wrote the file: encrypt_setup_by_gametype, emit_header and
\* decrypt_block of the plaintext from pos 0
JustMade == ~NoFile /\ call = made

\* byte (3 - i mod 4) of (init_key + floor(i / 4) * update_key) mod 2^32,
\* the most significant byte being byte 3
V1KeyByte(init_key, update_key, i) ==
    ShiftByte(Add32(init_key, Mul32(WordOfInt(i \div 4), update_key)),
              (3 - (i % 4)) * 8)

\* C21: the V1 keystream: a V1 engine decrypting sequentially from pos 0
\* XORs byte number i (i >= 0) with byte (3 - i mod 4) of
\* (init_key + floor(i / 4) * update_key) mod 2^32, most significant byte
\* first, where update_key = (len(basename) mod 64) + 1; the key word changes
\* only after the byte with i mod 4 = 3.
C21_V1Keystream ==
    (JustMade /\ made.version = 1) =>
        LET e == ret.dctx
        IN  /\ e.update_key = WordOfInt((Len(Basename(made.filename)) % 64) + 1)
            /\ Len(file) = Len(made.plain)
            /\ \A i \in 0..(Len(file) - 1) :
                   file[i + 1] = XorBits(made.plain[i + 1],
                                         V1KeyByte(e.init_key, e.update_key, i), 8)

\* a V1 file of 64 bytes was written: the key word advanced 15 times in it
C21_Witness ==
    /\ JustMade
    /\ made.version = 1
    /\ Len(made.plain) = 64
    /\ Len(file) = 64
    /\ file[64] # XorBits(made.plain[64], ShiftByte(ret.dctx.init_key, 0), 8)

\* the first three bytes of h are the bitwise complement of digest[4..7)
ComplementPrefix(h, digest) ==
    /\ h[1] = 255 - digest[5]
    /\ h[2] = 255 - digest[6]
    /\ h[3] = 255 - digest[7]

\* C22: the shared header validation comes first: when setup_v3 is given a
\* header, a header shorter than 16 bytes raises InsufficientHeaderDataError
\* and a 16-byte header whose first three bytes are not the complement of
\* digest[4..7) raises InvalidHeaderError, for version 0, 3 and 4 and
\* whatever byte 7 is.
C22_HeaderValidationFirst ==
    call.op = "setup_v3" =>
        LET d == calculate_md5(_COMBINATION[call.region][2], call.filename).digest
            h == call.header
        IN  /\ Len(h) < 16 => ret = Raise("InsufficientHeaderDataError")
            /\ (Len(h) = 16 /\ ~ComplementPrefix(h, d)) =>
                   ret = Raise("InvalidHeaderError")

\* setup_v3 got a 16-byte header with byte 7 = 3 and a prefix that is not
\* the complement of the digest, and raised InvalidHeaderError
C22_Witness ==
    /\ call.op = "setup_v3"
    /\ Len(call.header) = 16
    /\ call.header[8] = 3
    /\ ~ComplementPrefix(call.header,
                         calculate_md5(_COMBINATION[call.region][2],
                                       call.filename).digest)
    /\ ret = Raise("InvalidHeaderError")

\* C23: the headers V3 and V4 engines emit are distinguishable: a V3 engine
\* emits 16 bytes with byte 3 = 12 and byte 7 = 1 if the engine is flipped
\* and 0 otherwise; a V4 engine emits 16 bytes with byte 3 = 12, byte 6 =
\* lcg_index and byte 7 = 2; both start with the complement of digest[4..7).
C23_EmittedHeaders ==
    (JustMade /\ ret.dctx.VERSION \in {3, 4}) =>
        LET e == ret.dctx
            h == emit_header(e)
            d == calculate_md5(_COMBINATION[Region(made.gametype)][2],
                               made.filename).digest
        IN  /\ h = Take(file, 16)
            /\ Len(h) = 16
            /\ h[4] = 12
            /\ ComplementPrefix(h, d)
            /\ e.VERSION = 3 => /\ h[8] = (IF e.flipped THEN 1 ELSE 0)
                                /\ h[8] < 2
            /\ e.VERSION = 4 => /\ h[7] = e.lcg_index
                                /\ h[8] = 2

\* a flipped V3 engine emitted a header with byte 7 = 1
C23_Witness ==
    /\ JustMade
    /\ ret.dctx.VERSION = 3
    /\ ret.dctx.flipped
    /\ Len(file) >= 16
    /\ file[8] = 1

\* the last call was decrypt_setup with version 0 on the first 16 bytes of
\* the file, with the region and the file name the file was written with
ProbedAsMade ==
    /\ ~NoFile
    /\ Len(file) >= 16
    /\ call.op = "decrypt_setup"
    /\ call.version = 0
    /\ call.region = Region(made.gametype)
    /\ call.filename = made.filename
    /\ call.header = Take(file, 16)

\* the engine the file was written with, as encrypt_setup_by_gametype
\* returned it
MadeEngine ==
    encrypt_setup_by_gametype(made.gametype, made.filename, made.version,
                              made.flip, made.lcg).dctx

\* C24: probe self-consistency for V2 and V4: the header a V2 or V4 engine
\* of encrypt_setup emits, padded to 16 bytes and given to decrypt_setup with
\* version 0 and the same prefix and file name, yields an engine of the same
\* version with the same initial key state and, for V4, the same lcg_index.
\* (The padding of a V2 header is the first 12 bytes of ciphertext.)
C24_ProbeSelfConsistent ==
    (ProbedAsMade /\ MadeEngine.VERSION \in {2, 4}) =>
        /\ ret.ok
        /\ ret.dctx.VERSION = MadeEngine.VERSION
        /\ ret.dctx.pos = 0
        /\ ret.dctx.init_key = MadeEngine.init_key
        /\ KeyState(ret.dctx) = KeyState(MadeEngine)
        /\ MadeEngine.VERSION = 4 => ret.dctx.lcg_index = made.lcg

\* the header of a V4 file written with lcg_index 3 was probed with the
\* file's region and name, and a V4 engine with lcg_index 3 came back
C24_Witness ==
    /\ ProbedAsMade
    /\ made.version = 4
    /\ made.lcg = 3
    /\ ret.ok
    /\ ret.dctx.VERSION = 4
    /\ ret.dctx.lcg_index = 3

\* the header of the last decrypt_setup call passes the header test of
\* Version2Context for the call's region and file name
PassesV2Test ==
    Version2Context(_COMBINATION[call.region][2], call.filename,
                    Some(_COMBINATION[call.region][3]), Some(call.header)).ok

\* the header of the last decrypt_setup call passes _test_v3 for the call's
\* region and file name
PassesV3Test ==
    IsNone(_test_v3(Some(call.header),
                    calculate_md5(_COMBINATION[call.region][2],
                                  call.filename).digest))

\* C25: probing V2 first never shadows V3/V4: for one prefix and file name no
\* 16-byte header passes both the V2 header test and the V3+ header test, so
\* in one region at most one of the V2 probe and the V3/V4 probe succeeds.
C25_V2NeverShadows ==
    (call.op = "decrypt_setup" /\ Len(call.header) = 16) =>
        /\ ~(PassesV2Test /\ PassesV3Test)
        /\ ~(/\ Construct(<<call.region, 1>>, call.filename, call.header).ok
             /\ Construct(<<call.region, 2>>, call.filename, call.header).ok)

\* decrypt_setup got a header that passes the V3+ test of its region and
\* file name and fails the V2 test, and the V3/V4 probe succeeded
C25_Witness ==
    /\ call.op = "decrypt_setup"
    /\ call.version = 0
    /\ Len(call.header) = 16
    /\ PassesV3Test
    /\ ~PassesV2Test
    /\ ret.ok
    /\ ret.dctx.VERSION = 4

\* C26: probing fails only with its documented error: for every file name
\* and every header of at least 16 bytes, decrypt_setup_probe with version 0
\* returns an engine or raises NoSuitableModeError and nothing else, and
\* every V4 engine it returns has lcg_index in 0..3; headers that pass the
\* V3+ prefix check with byte 7 = 2 and byte 6 of 4 or more are included.
C26_ProbeRaisesOnlyNoSuitableMode ==
    (call.op = "decrypt_setup_probe" /\ call.version = 0 /\ Len(call.header) >= 16) =>
        /\ ret.ok \/ ret = Raise("NoSuitableModeError")
        /\ (ret.ok /\ ret.dctx.VERSION = 4) => ret.dctx.lcg_index \in 0..3

\* C27: forced version 1 reports the first region: decrypt_setup_probe with
\* version = 1 and a header of at least 16 bytes always succeeds; it returns
\* a V1 engine keyed with the JP prefix, and the region "JP", whatever the
\* file holds and whatever region wrote it.
C27_ForcedV1ReportsJP ==
    (call.op = "decrypt_setup_probe" /\ call.version = 1 /\ Len(call.header) >= 16) =>
        /\ ret.ok
        /\ ret.gametype = "JP"
        /\ ret.dctx = Version1Context(NAME_PREFIX_JP, call.filename, None, None).dctx
        /\ ret.dctx.VERSION = 1

\* the header of a V4 file written for CN was probed with version 1, and a
\* V1 engine came back with region "JP"
C27_Witness ==
    /\ ~NoFile
    /\ made.gametype = "CN"
    /\ made.version = 4
    /\ call.op = "decrypt_setup_probe"
    /\ call.version = 1
    /\ call.header = Take(file, 16)
    /\ Len(call.header) = 16
    /\ ret.ok
    /\ ret.gametype = "JP"
    /\ ret.dctx.VERSION = 1

(***************************************************************************)
(* A StreamIOWrapper in use: opened with write_header = True on an empty   *)
(* stream with a new engine, then any sequence of calls of its methods.    *)
(* session.spos is the position of the underlying stream, file its         *)
(* content and session.closed whether it has been closed.                  *)
(***************************************************************************)

\* the n of read(n), the limit of readline(limit), the hint of
\* readlines(hint)
ReadSizes == {-1, 1}

\* the offset and the whence of seek(offset, whence)
SeekOffsets == {-1, 0, 2}

Whences == {"SEEK_SET", "SEEK_CUR", "SEEK_END"}

\* the lines of writelines(lines)
LineLists == UNION { [1..k -> Blocks] : k \in {0, 2} }

RECURSIVE LineEnd(_, _)
\* the end of the line of the stream that starts at position p: the
\* position after the first newline byte at or after p, the end of the
\* content when there is none
LineEnd(content, p) ==
    IF p >= Len(content) THEN Len(content)
    ELSE IF content[p + 1] = 10 THEN p + 1
    ELSE LineEnd(content, p + 1)

\* what readline(limit) of the stream at position p returns; a negative
\* limit is no limit
StreamLine(content, p, limit) ==
    IF p >= Len(content) THEN <<>>
    ELSE SubSeq(content, p + 1,
                IF limit >= 0 /\ p + limit < LineEnd(content, p)
                THEN p + limit ELSE LineEnd(content, p))

RECURSIVE StreamLines(_, _, _)
\* what readlines(hint) of the stream at position p returns: the lines to
\* the end, or with a positive hint the lines until their sizes add up to
\* hint or more
StreamLines(content, p, hint) ==
    IF p >= Len(content) THEN <<>>
    ELSE LET line == StreamLine(content, p, -1)
         IN  IF hint > 0 /\ Len(line) >= hint THEN <<line>>
             ELSE <<line>> \o StreamLines(content, p + Len(line),
                                          IF hint > 0 THEN hint - Len(line) ELSE hint)

RECURSIVE Joined(_)
\* b"".join(lines)
Joined(lines) == IF lines = <<>> THEN <<>> ELSE Head(lines) \o Joined(Tail(lines))

RECURSIVE DecryptEach(_, _)
\* [dctx.decrypt_block(d) for d in lines]: the engine afterwards and the
\* decrypted lines
DecryptEach(e, lines) ==
    IF lines = <<>> THEN [dctx |-> e, result |-> <<>>]
    ELSE LET r == decrypt_block(e, Head(lines))
             rest == DecryptEach(r.dctx, Tail(lines))
         IN  [dctx |-> rest.dctx, result |-> <<r.result>> \o rest.result]

RECURSIVE StreamPutEach(_, _, _)
\* the content and the position of the stream after writelines(lines) at
\* position p
StreamPutEach(content, p, lines) ==
    IF lines = <<>> THEN [content |-> content, spos |-> p]
    ELSE StreamPutEach(StreamPut(content, p, Head(lines)), p + Len(Head(lines)),
                       Tail(lines))

\* the game types of the engines the wrappers are opened with
StreamGameTypes == {"JP"}

InitStream ==
    \E g \in StreamGameTypes, f \in Filenames, v \in 1..4, flip \in BOOLEAN, lcg \in 0..3 :
        /\ (flip => v = 3)
        /\ (lcg # 0 => v = 4)
        /\ made = [op |-> "encrypt_setup_by_gametype", gametype |-> g,
                   filename |-> f, version |-> v, flip |-> flip, lcg |-> lcg]
        /\ ret = encrypt_setup_by_gametype(g, f, v, flip, lcg)
        /\ file = StreamPut(<<>>, 0, emit_header(ret.dctx))
        /\ dctx = goto_offset(ret.dctx, 0)
        /\ call = [op |-> "StreamIOWrapper", write_header |-> TRUE, before |-> ret.dctx]
        /\ session = [kind |-> "stream", seeks |-> 0, spos |-> Len(file),
                      closed |-> FALSE]
        /\ inp = <<>>
        /\ outp = <<>>

\* In this specification call is the method called last and whether it
\* raised.
\* a method whose call on the stream raises (ValueError on a closed stream,
\* StopIteration at the end) before the engine is touched, or that does
\* nothing to the stream and the engine
NoEffect(op) ==
    /\ call' = [op |-> op, raised |-> TRUE]
    /\ UNCHANGED <<file, made, ret, dctx, session, inp, outp>>

\* StreamIOWrapper.read(n)
StreamRead(n) ==
    LET data == StreamGet(file, session.spos, n)
    IN  /\ session.kind = "stream"
        /\ IF session.closed THEN NoEffect("read")
           ELSE /\ dctx' = decrypt_block(dctx, data).dctx
                /\ outp' = decrypt_block(dctx, data).result
                /\ call' = [op |-> "read", raised |-> FALSE]
                /\ session' = [session EXCEPT !.spos = @ + Len(data)]
                /\ UNCHANGED <<file, made, ret, inp>>

\* StreamIOWrapper.readline(limit)
StreamReadline(limit) ==
    LET data == StreamLine(file, session.spos, limit)
    IN  /\ session.kind = "stream"
        /\ IF session.closed THEN NoEffect("readline")
           ELSE /\ dctx' = decrypt_block(dctx, data).dctx
                /\ outp' = decrypt_block(dctx, data).result
                /\ call' = [op |-> "readline", raised |-> FALSE]
                /\ session' = [session EXCEPT !.spos = @ + Len(data)]
                /\ UNCHANGED <<file, made, ret, inp>>

\* StreamIOWrapper.readlines(hint); outp is the decrypted lines joined
StreamReadlines(hint) ==
    LET data == StreamLines(file, session.spos, hint)
    IN  /\ session.kind = "stream"
        /\ IF session.closed THEN NoEffect("readlines")
           ELSE /\ dctx' = DecryptEach(dctx, data).dctx
                /\ outp' = Joined(DecryptEach(dctx, data).result)
                /\ call' = [op |-> "readlines", raised |-> FALSE]
                /\ session' = [session EXCEPT !.spos = @ + Len(Joined(data))]
                /\ UNCHANGED <<file, made, ret, inp>>

\* StreamIOWrapper.__next__(), and __next__ of the iterator __iter__()
\* returned: the next line of the stream as it is stored; the engine is not
\* called; StopIteration at the end, ValueError on a closed stream
StreamNext ==
    LET data == StreamLine(file, session.spos, -1)
    IN  /\ session.kind = "stream"
        /\ IF session.closed \/ data = <<>> THEN NoEffect("__next__")
           ELSE /\ outp' = data
                /\ call' = [op |-> "__next__", raised |-> FALSE]
                /\ session' = [session EXCEPT !.spos = @ + Len(data)]
                /\ UNCHANGED <<file, made, ret, dctx, inp>>

\* StreamIOWrapper.__iter__(): returns the iterator of the stream, which is
\* the stream itself; nothing is read and a closed stream does not raise.
\* Every line a loop then takes is one __next__ call on the stream, the step
\* StreamNext makes.
StreamIter ==
    /\ session.kind = "stream"
    /\ call' = [op |-> "__iter__", raised |-> FALSE]
    /\ UNCHANGED <<file, made, ret, dctx, session, inp, outp>>

\* StreamIOWrapper.seek(offset, whence); when the stream's seek raises,
\* neither the stream nor the engine has moved
StreamSeek(offset, whence) ==
    LET offset1 == IF whence = "SEEK_SET" THEN offset + HEADER_SIZE(dctx) ELSE offset
        to == StreamSeekTo(file, session.spos, offset1, whence)
        result == to[1] - HEADER_SIZE(dctx)
    IN  /\ session.kind = "stream"
        /\ session.seeks < MaxSeeks
        /\ IF session.closed \/ IsNone(to)
           THEN /\ call' = [op |-> "seek", raised |-> TRUE]
                /\ session' = [session EXCEPT !.seeks = @ + 1]
                /\ UNCHANGED dctx
           ELSE /\ call' = [op |-> "seek", raised |-> FALSE]
                /\ session' = [session EXCEPT !.seeks = @ + 1, !.spos = to[1]]
                /\ dctx' = goto_offset(dctx, result)
        /\ UNCHANGED <<file, made, ret, inp, outp>>

\* StreamIOWrapper.writelines(lines): the stream's writelines draws the
\* lines from the generator one by one, each through decrypt_block; a closed
\* stream raises ValueError before it draws any
StreamWritelines(lines) ==
    /\ session.kind = "stream"
    /\ Len(inp) + Len(Joined(lines)) <= MaxRun
    /\ IF session.closed THEN NoEffect("writelines")
       ELSE LET put == StreamPutEach(file, session.spos,
                                     DecryptEach(dctx, lines).result)
            IN  /\ dctx' = DecryptEach(dctx, lines).dctx
                /\ file' = put.content
                /\ session' = [session EXCEPT !.spos = put.spos]
                /\ inp' = inp \o Joined(lines)
                /\ call' = [op |-> "writelines", raised |-> FALSE]
                /\ UNCHANGED <<made, ret, outp>>

\* StreamIOWrapper.close() and __exit__: the stream is closed
StreamClose ==
    /\ session.kind = "stream"
    /\ call' = [op |-> "close", raised |-> FALSE]
    /\ session' = [session EXCEPT !.closed = TRUE]
    /\ UNCHANGED <<file, made, ret, dctx, inp, outp>>

\* StreamIOWrapper.flush(): nothing is buffered; ValueError on a closed
\* stream
StreamFlush ==
    /\ session.kind = "stream"
    /\ call' = [op |-> "flush", raised |-> session.closed]
    /\ UNCHANGED <<file, made, ret, dctx, session, inp, outp>>

\* StreamIOWrapper.truncate(size) raises NotImplementedError
StreamTruncate ==
    /\ session.kind = "stream"
    /\ NoEffect("truncate")

NextStream ==
    \/ \E s \in Blocks : StreamWrite(s)
    \/ \E lines \in LineLists : StreamWritelines(lines)
    \/ \E n \in ReadSizes : StreamRead(n)
    \/ \E limit \in ReadSizes : StreamReadline(limit)
    \/ \E hint \in ReadSizes : StreamReadlines(hint)
    \/ StreamNext
    \/ StreamIter
    \/ \E offset \in SeekOffsets, whence \in Whences : StreamSeek(offset, whence)
    \/ StreamClose
    \/ StreamFlush
    \/ StreamTruncate

SpecStream == InitStream /\ [][NextStream]_vars

\* what StreamIOWrapper.tell() returns
StreamTell == session.spos - HEADER_SIZE(dctx)

\* C28: the wrapper position stays in step with the engine: for a
\* StreamIOWrapper opened with write_header = True on an empty stream, after
\* any sequence of write, read and seek calls (any whence, any offset) the
\* engine's pos equals the position of the underlying stream minus
\* HEADER_SIZE, the value tell() returns.
C28_WrapperPosInStep ==
    session.kind = "stream" => dctx.pos = StreamTell

====
